---- MODULE Spec2Model ----
(***************************************************************************)
(* The hand-recognition panel (HandRecognition component, src/unnamed/     *)
(* part_002): the gesture classifiers, the per-frame arbiter               *)
(* (analyzeGesture / processVideoFrame), the bounded history logs, and the *)
(* React scheduling around them (memoised callbacks that capture the state *)
(* of the render that created them, the start/stop effect, and the         *)
(* requestAnimationFrame chain).                                           *)
(*                                                                         *)
(* Units.  Landmark coordinates are integers in units of 1/CoordScale, so  *)
(* 0.05 is 500 and 0.0499 is 499.  Confidences are integers in units of    *)
(* 1/ConfScale percent, so that the dynamic classifier's                   *)
(* 60 + motionMagnitude/100 (motionMagnitude being a sum of thirds) stays  *)
(* exact.  The z coordinate of a landmark is never read by the code and is *)
(* left out.                                                               *)
(***************************************************************************)
EXTENDS Integers, Sequences, FiniteSets, TLC

\* ------------------------------------------------------------------ bounds
\* accepted classifications in one behaviour of Spec
MaxAccepted == 2
\* accepted classifications in one behaviour of SpecSeq
MaxSeq == 7
\* accepted classifications in one behaviour of SpecLong
MaxLong == 26
\* the accepted classifications of a run of SpecStatic
MaxStatic == 2

\* ------------------------------------------------------------------- units
CoordScale == 100 * 100
ConfScale == 3 * 100
Conf(n) == n * ConfScale

\* JS null / undefined
Null == [kind |-> "null"]
\* an exception thrown while evaluating (TypeError on undefined.y)
Throw == [kind |-> "throw"]
Result(g, c) == [kind |-> "ok", gesture |-> g, confidence |-> c]
NoGesture == "<null>"
\* the second argument analyzeGesture is called without
Undefined == [kind |-> "undefined"]

Pt(px, py) == [x |-> px, y |-> py]

\* ---------------------------------------------------------- JS evaluation
\* points[i] is undefined when the array is shorter: reading .x/.y of it throws
Has(points, i) == i \in DOMAIN points

\* points[i].y < points[j].y : "T", "F", or "X" (throws)
YLess(points, i, j) ==
  IF ~Has(points, i) \/ ~Has(points, j) THEN "X"
  ELSE IF points[i].y < points[j].y THEN "T" ELSE "F"

\* a && b, left to right, short-circuit
And3(a, b) == IF a = "T" THEN b ELSE a
And4(a, b, c, d) == And3(a, And3(b, And3(c, d)))

\* if (c) return res; <rest>
IfReturn(c, res, rest) == IF c = "X" THEN Throw ELSE IF c = "T" THEN res ELSE rest

\* floor of the square root, a base-4 digit at a time
RECURSIVE Isqrt(_)
Isqrt(n) ==
  IF n < 2 THEN n
  ELSE LET r == 2 * Isqrt(n \div 4)
       IN IF (r + 1) * (r + 1) <= n THEN r + 1 ELSE r

Abs(n) == IF n < 0 THEN -n ELSE n
Min(a, b) == IF a < b THEN a ELSE b

\* --------------------------------------------------- analyzeStaticGesture
\* thresholds and confidences of the rules
OkHandDistance == (5 * CoordScale) \div 100
ThumbsUpConfidence == Conf(92)
PeaceSignConfidence == Conf(88)
PointingConfidence == Conf(85)
OpenPalmConfidence == Conf(83)
FistConfidence == Conf(80)
OkHandConfidence == Conf(90)

\* points[8].y > points[6].y && points[12].y > points[10].y && ... (curled)
FingersDown(points) ==
  And4(YLess(points, 6, 8), YLess(points, 10, 12),
       YLess(points, 14, 16), YLess(points, 18, 20))

\* points[8].y < points[6].y && ... (extended)
FingersUp(points) ==
  And4(YLess(points, 8, 6), YLess(points, 12, 10),
       YLess(points, 16, 14), YLess(points, 20, 18))

ThumbUp(points) == And3(YLess(points, 4, 3), YLess(points, 4, 2))

PeaceCond(points) ==
  And4(YLess(points, 8, 6), YLess(points, 12, 10),
       YLess(points, 14, 16), YLess(points, 18, 20))

PointingCond(points) ==
  And4(YLess(points, 8, 6), YLess(points, 10, 12),
       YLess(points, 14, 16), YLess(points, 18, 20))

\* a variant of OkHandCond whose comparison is not strict
OkHandCondInclusive(points) ==
  IF ~(4 \in DOMAIN points) \/ ~(8 \in DOMAIN points) THEN "X"
  ELSE IF (points[4].x - points[8].x) * (points[4].x - points[8].x)
          + (points[4].y - points[8].y) * (points[4].y - points[8].y)
          <= 500 * 500
       THEN "T" ELSE "F"

\* thumbIndexDistance < 0.05, compared on the squares
OkHandCond(points) ==
  IF ~Has(points, 4) \/ ~Has(points, 8) THEN "X"
  ELSE LET dx == points[4].x - points[8].x
           dy == points[4].y - points[8].y
       IN IF dx * dx + dy * dy < OkHandDistance * OkHandDistance THEN "T" ELSE "F"

\* lines 171-214: the rules after Thumbs Up
AfterThumbsUp(points) ==
  IfReturn(PeaceCond(points), Result("Peace Sign", PeaceSignConfidence),
  IfReturn(PointingCond(points), Result("Pointing", PointingConfidence),
  IfReturn(FingersUp(points), Result("Open Palm", OpenPalmConfidence),
  IfReturn(FingersDown(points), Result("Fist", FistConfidence),
  IfReturn(OkHandCond(points), Result("OK Hand", OkHandConfidence),
  Null)))))

\* a variant of AnalyzeStaticGesture without the Thumbs Up rule
AnalyzeStaticGestureNoThumb(points) ==
  IF ThumbUp(points) = "X" THEN Throw ELSE AfterThumbsUp(points)

\* lines 157-215
AnalyzeStaticGesture(points) ==
  IF ThumbUp(points) = "X" THEN Throw
  ELSE IF ThumbUp(points) = "T"
       THEN IfReturn(FingersDown(points), Result("Thumbs Up", ThumbsUpConfidence),
                     AfterThumbsUp(points))
       ELSE AfterThumbsUp(points)

\* -------------------------------------------------- analyzeDynamicGesture
\* An ImageData is [width, height, data], data the sequence of its pixels
\* [r, g, b] in row order (the alpha byte is never read).
MinFrames == 3
MotionMagnitudeThreshold == 1000
SwipeBaseConfidence == 60
SwipeMaxConfidence == 85

\* 3 * gray of pixel p
Gray3(img, p) == img.data[p].r + img.data[p].g + img.data[p].b

\* 3 * |currGray - prevGray| of pixel p (1-based)
Diff3(cur, prev, p) == Abs(Gray3(cur, p) - Gray3(prev, p))

\* a variant of Moving that also counts a diff equal to motionThreshold
MovingInclusive(cur, prev, threshold) ==
  {p \in 1..Len(cur.data) : Diff3(cur, prev, p) >= 3 * threshold}

\* the pixels that count: diff > motionThreshold
Moving(cur, prev, threshold) ==
  {p \in 1..Len(cur.data) : Diff3(cur, prev, p) > 3 * threshold}

RECURSIVE SumOver(_, _, _)
SumOver(S, cur, prev) ==
  IF S = {} THEN 0
  ELSE LET p == CHOOSE q \in S : TRUE
       IN Diff3(cur, prev, p) + SumOver(S \ {p}, cur, prev)

PixelX(img, p) == (p - 1) % img.width
PixelY(img, p) == (p - 1) \div img.width

\* 3 * motionMagnitude, 3 * horizontalMotion, 3 * verticalMotion
MotionMagnitude3(cur, prev, threshold) == SumOver(Moving(cur, prev, threshold), cur, prev)

HorizontalMotion3(cur, prev, threshold) ==
  LET M == Moving(cur, prev, threshold)
  IN SumOver({p \in M : 5 * PixelX(cur, p) > 3 * cur.width}, cur, prev)
     - SumOver({p \in M : 5 * PixelX(cur, p) < 2 * cur.width}, cur, prev)

VerticalMotion3(cur, prev, threshold) ==
  LET M == Moving(cur, prev, threshold)
  IN SumOver({p \in M : 5 * PixelY(cur, p) > 3 * cur.height}, cur, prev)
     - SumOver({p \in M : 5 * PixelY(cur, p) < 2 * cur.height}, cur, prev)

\* Math.min(85, 60 + motionMagnitude / 100), in units of 1/ConfScale
SwipeConfidence(mag3) == Min(Conf(SwipeMaxConfidence), Conf(SwipeBaseConfidence) + mag3)

\* a variant of AnalyzeDynamicGesture that is content with two frames
AnalyzeDynamicGestureTwoFrames(frames, threshold) ==
  IF Len(frames) < 2 THEN Null
  ELSE IF MotionMagnitude3(frames[Len(frames)], frames[Len(frames) - 1], threshold)
          > 3 * MotionMagnitudeThreshold
       THEN Result("Swipe Right",
                   SwipeConfidence(MotionMagnitude3(frames[Len(frames)],
                                                    frames[Len(frames) - 1], threshold)))
       ELSE Null

\* lines 218-264; current.data of a frame that is undefined is a TypeError
AnalyzeDynamicGesture(frames, threshold) ==
  IF Len(frames) < MinFrames THEN Null
  ELSE IF frames[Len(frames)] = Undefined \/ frames[Len(frames) - 1] = Undefined
  THEN Throw
  ELSE LET cur == frames[Len(frames)]
           prev == frames[Len(frames) - 1]
           mag3 == MotionMagnitude3(cur, prev, threshold)
           h == HorizontalMotion3(cur, prev, threshold)
           v == VerticalMotion3(cur, prev, threshold)
       IN IF mag3 > 3 * MotionMagnitudeThreshold
          THEN IF Abs(h) > Abs(v)
               THEN Result(IF h > 0 THEN "Swipe Right" ELSE "Swipe Left", SwipeConfidence(mag3))
               ELSE Result(IF v > 0 THEN "Swipe Down" ELSE "Swipe Up", SwipeConfidence(mag3))
          ELSE Null

\* ------------------------------------------------- analyzeTrackingGesture
PinchSpread == (15 * CoordScale) \div 100
SpreadSpread == (40 * CoordScale) \div 100
PinchConfidence == Conf(87)
SpreadConfidence == Conf(85)

Fingertips == <<8, 12, 16, 20>>

\* squared distance between fingertips i and i+1
TipDist2(points, i) ==
  LET a == points[Fingertips[i]]
      b == points[Fingertips[i + 1]]
  IN (a.x - b.x) * (a.x - b.x) + (a.y - b.y) * (a.y - b.y)

\* the floors of the three distances and the number of irrational ones:
\* totalSpread lies in [floor, floor + slack], and equals floor exactly when
\* slack = 0
SpreadBounds(points) ==
  LET d1 == TipDist2(points, 1)
      d2 == TipDist2(points, 2)
      d3 == TipDist2(points, 3)
      r1 == Isqrt(d1)
      r2 == Isqrt(d2)
      r3 == Isqrt(d3)
  IN [floor |-> r1 + r2 + r3,
      slack |-> (IF r1 * r1 = d1 THEN 0 ELSE 1) + (IF r2 * r2 = d2 THEN 0 ELSE 1)
                + (IF r3 * r3 = d3 THEN 0 ELSE 1)]

\* totalSpread < t and totalSpread > t for an integer t.  A sum of square
\* roots of integers that is not a sum of integers is irrational, so it is
\* never equal to t; it is below t when floor + slack <= t and above when
\* floor >= t (hands whose sum falls strictly between are not enumerated).
SpreadBelow(sb, t) ==
  IF sb.slack = 0 THEN sb.floor < t ELSE sb.floor + sb.slack <= t
\* a variant of SpreadAbove that also accepts a spread equal to t
SpreadAboveInclusive(sb, t) == sb.floor >= t
SpreadAbove(sb, t) ==
  IF sb.slack = 0 THEN sb.floor > t ELSE sb.floor >= t

AnalyzeTrackingGesture(points) ==
  IF \E i \in 1..4 : ~Has(points, Fingertips[i]) THEN Throw
  ELSE LET sb == SpreadBounds(points)
       IN IF SpreadBelow(sb, PinchSpread) THEN Result("Pinch", PinchConfidence)
          ELSE IF SpreadAbove(sb, SpreadSpread) THEN Result("Spread", SpreadConfidence)
          ELSE Null

\* ------------------------------------------------------- detector results
\* One element of results.landmarks.  analyzeGesture reads hand.landmarks: an
\* element that is an object carrying a landmarks array has it, an element
\* that is itself the array of points does not (hand.landmarks is undefined).
ObjectHand(points) == [shape |-> "object", landmarks |-> points]
ArrayHand(points) == [shape |-> "array", points |-> points]

\* what one run of processVideoFrame meets: the video not ready, the
\* detector throwing, or a detection result
NotReady == [kind |-> "notReady"]
DetectThrows == [kind |-> "detectThrows"]
Results(landmarks) == [kind |-> "results", landmarks |-> landmarks]

Mid == CoordScale \div 2
TipX(i) == 4000 + 25 * i

\* thumb up, four fingers curled, fingertips close together
ThumbsUpHand ==
  [i \in 0..20 |->
     CASE i = 4 -> Pt(Mid, 2000)
       [] i \in {2, 3} -> Pt(Mid, 3000)
       [] i \in {8, 12, 16, 20} -> Pt(TipX(i), 6000)
       [] OTHER -> Pt(TipX(i), Mid)]

\* thumb down, four fingers curled, fingertips close together
FistHand ==
  [i \in 0..20 |->
     CASE i = 4 -> Pt(Mid, 4000)
       [] i \in {2, 3} -> Pt(Mid, 3000)
       [] i \in {8, 12, 16, 20} -> Pt(TipX(i), 6000)
       [] OTHER -> Pt(TipX(i), Mid)]

\* index and ring extended, middle and pinky curled, thumb far from the
\* index tip, fingertips neither close nor far: no rule matches
NoMatchHand ==
  [i \in 0..20 |->
     CASE i = 4 -> Pt(1000, 8000)
       [] i \in {2, 3} -> Pt(1000, 3000)
       [] i \in {8, 16} -> Pt(200 * i, Mid - 100)
       [] i \in {12, 20} -> Pt(200 * i, Mid + 100)
       [] OTHER -> Pt(200 * i, Mid)]

\* a partial detection: five points only
ShortHand == [i \in 0..4 |-> Pt(Mid, 1000 * i)]

\* ------------------------------------------------------------------- state
VARIABLES
  isWebcamActive,      \* useState, line 35
  isRecording,         \* useState, line 36
  recognizedGesture,   \* useState, line 37
  confidence,          \* useState, line 38
  sessionStats,        \* useState, line 39
  handLandmarker,      \* useState, line 44: TRUE once the detector is set
  isModelLoading,      \* useState, line 45
  detectionMethod,     \* useState, line 58
  gestureHistory,      \* useState, line 59
  isLearningMode,      \* useState, line 60
  customGestures,      \* useState, line 61
  motionThreshold,     \* useState, line 63
  gestureSequence,     \* useState, line 64
  frameBuffer,         \* useState, line 65
  analyzeGesture,      \* the memoised callback: what it captured
  processVideoFrame,   \* the memoised callback: what it captured
  effectDue,           \* the start/stop effect has to run (its deps changed)
  rafQueue,            \* the requested animation frames, oldest first
  modelInit,           \* initializeHandLandmarker: "pending", "loaded", "failed"
  clock,               \* the number of Date.now() readings so far
  accepted,            \* history variable: the entries emitted since the last reset
  lastOp,              \* history variable: the handler that ran last and its outcome
  call                 \* the last direct call of a classifier: arguments and result

vars == <<isWebcamActive, isRecording, recognizedGesture, confidence, sessionStats,
          handLandmarker, isModelLoading, detectionMethod, gestureHistory,
          isLearningMode, customGestures, motionThreshold, gestureSequence,
          frameBuffer, analyzeGesture, processVideoFrame, effectDue, rafQueue,
          modelInit, clock, accepted, lastOp, call>>

maxFrameBuffer == 10
HistoryKeep == 19
SequenceKeep == 4
LearnConfidence == 70
DynamicMinBuffer == 3
DefaultMotionThreshold == 50

DetectionMethods == {"manual", "frame-diff", "object-detection"}
\* the slider's values that are tried
MotionThresholds == {DefaultMotionThreshold, 80}

\* a variant of EmptySessionStats that keeps an accuracy
StaleSessionStats == [gesturesDetected |-> 0, accuracy |-> 92, sessionTime |-> 0]

EmptySessionStats == [gesturesDetected |-> 0, accuracy |-> 0, sessionTime |-> 0]

\* arr.slice(-n)
SliceLast(arr, n) ==
  IF Len(arr) <= n THEN arr ELSE SubSeq(arr, Len(arr) - n + 1, Len(arr))
\* arr.slice(1)
SliceFrom1(arr) == IF arr = <<>> THEN <<>> ELSE Tail(arr)
Includes(arr, v) == \E i \in 1..Len(arr) : arr[i] = v

\* a variant of StoreFrame that stores whatever it is given, untested
StoreFrameUnchecked(prev, captured, frameData) == Append(prev, frameData)

\* ----------------------------------------------------------- analyzeGesture
\* lines 112-117: the buffer after the frame is stored.  The capacity test
\* reads the frameBuffer the callback captured, the update works on prev.
StoreFrame(prev, captured, frameData) ==
  IF frameData # Undefined /\ Len(captured) >= maxFrameBuffer
  THEN Append(SliceFrom1(prev), frameData)
  ELSE IF frameData # Undefined THEN Append(prev, frameData)
  ELSE prev

\* confidence of the running winner (0 while there is none)
WinnerConfidence(cur) == IF cur.kind = "ok" THEN cur.confidence ELSE 0

\* if (candidate && candidate.confidence > confidence) replace the winner
\* a variant of Override that lets a candidate of equal confidence win
OverrideOnTie(cur, cand) ==
  IF cand.kind = "ok" /\ cand.confidence >= (IF cur.kind = "ok" THEN cur.confidence ELSE 0)
  THEN cand ELSE cur

Override(cur, cand) ==
  IF cand.kind = "ok" /\ cand.confidence > WinnerConfidence(cur) THEN cand ELSE cur

\* lines 130-137: the winner after the dynamic classifier had its say
AfterDynamic(ag, static) ==
  IF ag.detectionMethod = "frame-diff" /\ Len(ag.frameBuffer) >= DynamicMinBuffer
  THEN IF AnalyzeDynamicGesture(ag.frameBuffer, ag.motionThreshold) = Throw
       THEN Throw
       ELSE Override(static, AnalyzeDynamicGesture(ag.frameBuffer, ag.motionThreshold))
  ELSE static

\* lines 141-145: the winner after the tracking classifier had its say
AfterTracking(cur, tracking) ==
  IF cur = Throw \/ tracking = Throw THEN Throw ELSE Override(cur, tracking)

\* lines 125-146, static being what analyzeStaticGesture returned
WinnerFrom(ag, points, static) ==
  IF static = Throw THEN Throw
  ELSE IF ag.detectionMethod = "object-detection"
       THEN AfterTracking(AfterDynamic(ag, static), AnalyzeTrackingGesture(points))
       ELSE AfterDynamic(ag, static)

\* lines 119-146: the winning classification for the points of hand[0],
\* under the settings the callback captured
Winner(ag, points) == WinnerFrom(ag, points, AnalyzeStaticGesture(points))

\* a variant of ShouldLearn that does not look at the learning-mode flag
ShouldLearnAlways(learning, winner) ==
  winner.kind = "ok" /\ winner.confidence > Conf(70)

\* line 149: isLearningMode && gestureResult && confidence > 70
ShouldLearn(learning, winner) ==
  learning /\ winner.kind = "ok" /\ winner.confidence > Conf(LearnConfidence)

\* lines 296-304: customGestures after addCustomGesture(gesture).  The
\* membership test reads the customGestures the callback captured.
AddCustomGesture(prev, captured, gesture) ==
  IF ~Includes(captured, gesture) THEN Append(prev, gesture) ELSE prev

\* lines 105-110: the points analyzeGesture works on, Null when it returns
\* null before looking at any
PointsOf(landmarks) ==
  IF Len(landmarks) = 0 THEN Null
  ELSE IF landmarks[1].shape # "object" THEN Null
  ELSE [kind |-> "points", points |-> landmarks[1].landmarks]

\* lines 104-154: what analyzeGesture returns (or Throw)
AnalyzeGesture(ag, landmarks) ==
  IF PointsOf(landmarks) = Null THEN Null
  ELSE Winner(ag, PointsOf(landmarks).points)

\* -------------------------------------------------------- processVideoFrame
\* line 324: gestureResult && gestureResult.gesture !== "Unknown"
Emits(g) == g.kind = "ok" /\ g.gesture # "Unknown"

\* a variant of HistoryUpdate that keeps one entry too many
HistoryUpdateKeep20(prev, entry) == Append(SliceLast(prev, 20), entry)
\* a variant of SequenceUpdate that keeps one label too many
SequenceUpdateKeep5(prev, gesture) == Append(SliceLast(prev, 5), gesture)

\* line 334
HistoryUpdate(prev, entry) == Append(SliceLast(prev, HistoryKeep), entry)
\* line 337
SequenceUpdate(prev, gesture) == Append(SliceLast(prev, SequenceKeep), gesture)

\* Math.round((prev.accuracy + confidence) / 2), confidence in 1/ConfScale
\* a variant of RoundedMean that drops the half instead of rounding it up
TruncatedMean(acc, c) == (acc * ConfScale + c) \div (2 * ConfScale)

\* Math.round((prev.accuracy + gestureResult.confidence) / 2), line 342
RoundedMean(acc, c) == (acc * ConfScale + c + ConfScale) \div (2 * ConfScale)

\* a variant of StatsUpdate that forgets the session time
StatsUpdateNoTime(prev, c) ==
  [gesturesDetected |-> prev.gesturesDetected + 1,
   accuracy |-> (prev.accuracy * ConfScale + c + ConfScale) \div (2 * ConfScale),
   sessionTime |-> prev.sessionTime]

\* lines 339-344
StatsUpdate(prev, c) ==
  [gesturesDetected |-> prev.gesturesDetected + 1,
   accuracy |-> RoundedMean(prev.accuracy, c),
   sessionTime |-> prev.sessionTime + 1]

\* a variant of DisplayAfter that clears the display when nothing is emitted
DisplayAfterClearing(prev, g) ==
  IF g.kind = "ok" /\ g.gesture # "Unknown"
  THEN [gesture |-> g.gesture, confidence |-> g.confidence]
  ELSE [gesture |-> "<null>", confidence |-> 0]

\* a variant of DisplayAfter that blanks the display when no classifier matched
DisplayAfterNoMatch(prev, g) ==
  IF g.kind = "ok" /\ g.gesture # "Unknown"
  THEN [gesture |-> g.gesture, confidence |-> g.confidence]
  ELSE IF g.kind = "null" THEN [gesture |-> "<null>", confidence |-> 0]
  ELSE prev

\* lines 325-326: the displayed gesture and confidence after a frame
DisplayAfter(prev, g) ==
  IF Emits(g) THEN [gesture |-> g.gesture, confidence |-> g.confidence] ELSE prev

\* line 322: analyzeGesture(results.landmarks) is called with one argument,
\* so its frameData parameter is undefined
FrameDataArgument(frame) == Undefined

\* a variant of CancelAnimationFrame that cancels nothing
CancelNothing(queue) == queue

\* cancelAnimationFrame(animationFrameRef.current): the ref holds the id of
\* the frame requested last, which is the last of the queue if still pending
CancelAnimationFrame(queue) ==
  IF queue = <<>> THEN queue
  ELSE IF queue[Len(queue)].latest THEN SubSeq(queue, 1, Len(queue) - 1)
  ELSE queue

\* requestAnimationFrame(cb); animationFrameRef.current = its id
RequestAnimationFrame(queue, cb) ==
  Append([i \in 1..Len(queue) |-> [queue[i] EXCEPT !.latest = FALSE]],
         [cb |-> cb, latest |-> TRUE])

\* line 308: the early return
EarlyReturn(cb, mounted) == ~mounted \/ ~cb.handLandmarker \/ ~cb.isRecording

\* a run that changes nothing
Idle(outcome) ==
  [outcome |-> outcome, result |-> Null, hands |-> 0, stored |-> FALSE,
   learned |-> FALSE]

\* lines 322-346, g being what analyzeGesture returned or Throw
Analysed(cb, landmarks, g) ==
  IF g = Throw
  THEN [outcome |-> "throw", result |-> Null, hands |-> Len(landmarks),
        stored |-> PointsOf(landmarks) # Null, learned |-> FALSE]
  ELSE [outcome |-> IF Emits(g) THEN "emit" ELSE "noEmit",
        result |-> g, hands |-> Len(landmarks),
        stored |-> PointsOf(landmarks) # Null,
        learned |-> ShouldLearn(cb.analyzeGesture.isLearningMode, g)]

\* lines 308-349: one run of the callback cb on input in, up to the state
\* updates: its outcome, what analyzeGesture returned (Null when it was not
\* called or threw), the number of hands the detector reported, whether
\* analyzeGesture got as far as its frame store (line 113), and whether it
\* called addCustomGesture (line 150)
Run(cb, in, mounted) ==
  IF EarlyReturn(cb, mounted) THEN Idle("return")
  ELSE IF in.kind = "notReady" THEN Idle("notReady")
  ELSE IF in.kind = "detectThrows" THEN Idle("throw")
  ELSE IF Len(in.landmarks) = 0 THEN Idle("noHands")
  ELSE Analysed(cb, in.landmarks, AnalyzeGesture(cb.analyzeGesture, in.landmarks))

\* ------------------------------------------------------------------ render
\* What the callbacks of a render capture.  analyzeGesture closes over the
\* render's frameBuffer, detectionMethod and isLearningMode, and over the
\* render's analyzeDynamicGesture (motionThreshold) and addCustomGesture
\* (customGestures), which are not among its dependencies.
Captured ==
  [frameBuffer |-> frameBuffer', detectionMethod |-> detectionMethod',
   isLearningMode |-> isLearningMode', motionThreshold |-> motionThreshold',
   customGestures |-> customGestures']

\* a variant of AnalyzeGestureStale without detectionMethod among the
\* dependencies
AnalyzeGestureStaleMethodBlind(newBuffer) ==
  \/ newBuffer
  \/ isLearningMode' # analyzeGesture.isLearningMode

\* line 154: a dependency of analyzeGesture changed (frameBuffer by identity)
AnalyzeGestureStale(newBuffer) ==
  \/ newBuffer
  \/ detectionMethod' # analyzeGesture.detectionMethod
  \/ isLearningMode' # analyzeGesture.isLearningMode

\* line 352: a dependency of processVideoFrame changed
ProcessVideoFrameStale(newBuffer) ==
  \/ AnalyzeGestureStale(newBuffer)
  \/ handLandmarker' # processVideoFrame.handLandmarker
  \/ isRecording' # processVideoFrame.isRecording

\* The render that follows a state update: useCallback keeps a callback
\* whose dependencies are unchanged, and the start/stop effect (line 372)
\* is due when processVideoFrame was created anew.
Render(newBuffer) ==
  /\ analyzeGesture' =
       IF AnalyzeGestureStale(newBuffer) THEN Captured ELSE analyzeGesture
  /\ processVideoFrame' =
       IF ProcessVideoFrameStale(newBuffer)
       THEN [handLandmarker |-> handLandmarker', isRecording |-> isRecording',
             analyzeGesture |-> analyzeGesture']
       ELSE processVideoFrame
  /\ effectDue' = ProcessVideoFrameStale(newBuffer)
  /\ call' = call

\* the entry of lines 329-333 for the result g
\* a variant of Schedules in which an exception ends the run before line 351
SchedulesUnlessThrown(outcome) == outcome \notin {"return", "throw"}

\* every run but the early return of line 309 requests the next frame: the
\* not-ready branch at line 314, the others, after the try/catch, at line 351
Schedules(outcome) == outcome # "return"

Entry(g) == [gesture |-> g.gesture, timestamp |-> clock + 1, confidence |-> g.confidence]

\* lines 112-117, 150, 325-344 and 351: the state after a run of cb
Apply(op, cb, queue, cap, run, frameData) ==
  /\ run.outcome = "emit" => clock < cap
  /\ frameBuffer' =
       IF run.stored
       THEN StoreFrame(frameBuffer, cb.analyzeGesture.frameBuffer, frameData)
       ELSE frameBuffer
  /\ customGestures' =
       IF run.learned
       THEN AddCustomGesture(customGestures, cb.analyzeGesture.customGestures,
                             run.result.gesture)
       ELSE customGestures
  /\ recognizedGesture' =
       DisplayAfter([gesture |-> recognizedGesture, confidence |-> confidence],
                    run.result).gesture
  /\ confidence' =
       DisplayAfter([gesture |-> recognizedGesture, confidence |-> confidence],
                    run.result).confidence
  /\ gestureHistory' =
       IF run.outcome = "emit" THEN HistoryUpdate(gestureHistory, Entry(run.result))
       ELSE gestureHistory
  /\ gestureSequence' =
       IF run.outcome = "emit" THEN SequenceUpdate(gestureSequence, run.result.gesture)
       ELSE gestureSequence
  /\ sessionStats' =
       IF run.outcome = "emit" THEN StatsUpdate(sessionStats, run.result.confidence)
       ELSE sessionStats
  /\ clock' = IF run.outcome = "emit" THEN clock + 1 ELSE clock
  /\ accepted' =
       IF run.outcome = "emit" THEN Append(accepted, Entry(run.result)) ELSE accepted
  /\ rafQueue' =
       IF Schedules(run.outcome) THEN RequestAnimationFrame(queue, cb) ELSE queue
  /\ lastOp' = [op |-> op, outcome |-> run.outcome, result |-> run.result,
                hands |-> run.hands]
  /\ UNCHANGED <<isWebcamActive, isRecording, handLandmarker, isModelLoading,
                 detectionMethod, isLearningMode, motionThreshold, modelInit>>
  /\ Render(run.stored /\ frameData # Undefined)

\* lines 307-352: one run of the callback cb on input in, queue being the
\* animation frames pending when it starts; at most cap entries are emitted
RunCallback(op, cb, in, queue, cap) ==
  Apply(op, cb, queue, cap, Run(cb, in, isWebcamActive), FrameDataArgument(in))

Op(name) == [op |-> name, outcome |-> "none", result |-> Null, hands |-> 0]

\* no classifier has been called directly
NoCall == [fn |-> "none"]

\* ----------------------------------------------------------------- actions
\* the state after the component has mounted: the first render's callbacks
\* capture the initial state, initializeHandLandmarker is awaiting the model
\* (line 71), the start/stop effect found nothing to start or cancel
Init ==
  /\ isWebcamActive = FALSE
  /\ isRecording = FALSE
  /\ recognizedGesture = NoGesture
  /\ confidence = 0
  /\ sessionStats = EmptySessionStats
  /\ handLandmarker = FALSE
  /\ isModelLoading = TRUE
  /\ detectionMethod = "manual"
  /\ gestureHistory = <<>>
  /\ isLearningMode = FALSE
  /\ customGestures = <<>>
  /\ motionThreshold = DefaultMotionThreshold
  /\ gestureSequence = <<>>
  /\ frameBuffer = <<>>
  /\ analyzeGesture = [frameBuffer |-> <<>>, detectionMethod |-> "manual",
                       isLearningMode |-> FALSE,
                       motionThreshold |-> DefaultMotionThreshold,
                       customGestures |-> <<>>]
  /\ processVideoFrame = [handLandmarker |-> FALSE, isRecording |-> FALSE,
                          analyzeGesture |-> analyzeGesture]
  /\ effectDue = FALSE
  /\ rafQueue = <<>>
  /\ modelInit = "pending"
  /\ clock = 0
  /\ accepted = <<>>
  /\ lastOp = Op("mount")
  /\ call = NoCall

\* the variables a handler that only changes settings or controls leaves alone
Session == <<recognizedGesture, confidence, sessionStats, gestureHistory,
             gestureSequence, frameBuffer, customGestures, clock, accepted>>

\* lines 85-91: the model loaded
ModelLoaded ==
  /\ ~effectDue
  /\ modelInit = "pending"
  /\ modelInit' = "loaded"
  /\ handLandmarker' = TRUE
  /\ isModelLoading' = FALSE
  /\ lastOp' = Op("modelLoaded")
  /\ UNCHANGED <<isWebcamActive, isRecording, detectionMethod, isLearningMode,
                 motionThreshold, rafQueue>>
  /\ UNCHANGED Session
  /\ Render(FALSE)

\* a variant of ModelFailed that installs a detector all the same
ModelFailedWithFallback ==
  /\ ~effectDue
  /\ modelInit = "pending"
  /\ modelInit' = "failed"
  /\ handLandmarker' = TRUE
  /\ isModelLoading' = FALSE
  /\ lastOp' = Op("modelFailed")
  /\ UNCHANGED <<isWebcamActive, isRecording, detectionMethod, isLearningMode,
                 motionThreshold, rafQueue>>
  /\ UNCHANGED Session
  /\ Render(FALSE)

\* lines 92-100: loading the model failed
ModelFailed ==
  /\ ~effectDue
  /\ modelInit = "pending"
  /\ modelInit' = "failed"
  /\ isModelLoading' = FALSE
  /\ lastOp' = Op("modelFailed")
  /\ UNCHANGED <<isWebcamActive, isRecording, handLandmarker, detectionMethod,
                 isLearningMode, motionThreshold, rafQueue>>
  /\ UNCHANGED Session
  /\ Render(FALSE)

\* lines 374-399, the button of lines 539-541: camera access granted
StartWebcam ==
  /\ ~effectDue
  /\ ~isWebcamActive
  /\ ~isModelLoading
  /\ isWebcamActive' = TRUE
  /\ lastOp' = Op("startWebcam")
  /\ UNCHANGED <<isRecording, handLandmarker, isModelLoading, detectionMethod,
                 isLearningMode, motionThreshold, rafQueue, modelInit>>
  /\ UNCHANGED Session
  /\ Render(FALSE)

\* a variant of StopWebcam that leaves the recording flag as it is
StopWebcamKeepRecording ==
  /\ ~effectDue
  /\ isWebcamActive
  /\ isWebcamActive' = FALSE
  /\ isRecording' = isRecording
  /\ recognizedGesture' = NoGesture
  /\ confidence' = 0
  /\ lastOp' = Op("stopWebcam")
  /\ UNCHANGED <<sessionStats, gestureHistory, gestureSequence, frameBuffer,
                 customGestures, clock, accepted>>
  /\ UNCHANGED <<handLandmarker, isModelLoading, detectionMethod, isLearningMode,
                 motionThreshold, rafQueue, modelInit>>
  /\ Render(FALSE)

\* lines 420-425, the button of line 579
StopWebcam ==
  /\ ~effectDue
  /\ isWebcamActive
  /\ isWebcamActive' = FALSE
  /\ isRecording' = FALSE
  /\ recognizedGesture' = NoGesture
  /\ confidence' = 0
  /\ lastOp' = Op("stopWebcam")
  /\ UNCHANGED <<sessionStats, gestureHistory, gestureSequence, frameBuffer,
                 customGestures, clock, accepted>>
  /\ UNCHANGED <<handLandmarker, isModelLoading, detectionMethod, isLearningMode,
                 motionThreshold, rafQueue, modelInit>>
  /\ Render(FALSE)

\* lines 427-440, the button of line 563
ToggleRecording ==
  /\ ~effectDue
  /\ isWebcamActive
  /\ isRecording' = ~isRecording
  /\ lastOp' = Op("toggleRecording")
  /\ UNCHANGED <<isWebcamActive, handLandmarker, isModelLoading, detectionMethod,
                 isLearningMode, motionThreshold, rafQueue, modelInit>>
  /\ UNCHANGED Session
  /\ Render(FALSE)

\* a variant of ResetSession that leaves the gesture sequence as it is
ResetSessionKeepSequence ==
  /\ ~effectDue
  /\ sessionStats' = EmptySessionStats
  /\ recognizedGesture' = NoGesture
  /\ confidence' = 0
  /\ gestureHistory' = <<>>
  /\ gestureSequence' = gestureSequence
  /\ frameBuffer' = <<>>
  /\ accepted' = <<>>
  /\ lastOp' = Op("resetSession")
  /\ UNCHANGED <<isWebcamActive, isRecording, handLandmarker, isModelLoading,
                 detectionMethod, isLearningMode, motionThreshold, customGestures,
                 rafQueue, modelInit, clock>>
  /\ Render(TRUE)

\* lines 442-453, the button of line 670.  setFrameBuffer([]) installs a new
\* array, so analyzeGesture and processVideoFrame are created anew.
ResetSession ==
  /\ ~effectDue
  /\ sessionStats' = EmptySessionStats
  /\ recognizedGesture' = NoGesture
  /\ confidence' = 0
  /\ gestureHistory' = <<>>
  /\ gestureSequence' = <<>>
  /\ frameBuffer' = <<>>
  /\ accepted' = <<>>
  /\ lastOp' = Op("resetSession")
  /\ UNCHANGED <<isWebcamActive, isRecording, handLandmarker, isModelLoading,
                 detectionMethod, isLearningMode, motionThreshold, customGestures,
                 rafQueue, modelInit, clock>>
  /\ Render(TRUE)

\* line 602
SetDetectionMethod(value) ==
  /\ ~effectDue
  /\ value # detectionMethod
  /\ detectionMethod' = value
  /\ lastOp' = Op("setDetectionMethod")
  /\ UNCHANGED <<isWebcamActive, isRecording, handLandmarker, isModelLoading,
                 isLearningMode, motionThreshold, rafQueue, modelInit>>
  /\ UNCHANGED Session
  /\ Render(FALSE)

\* line 619
SetIsLearningMode(value) ==
  /\ ~effectDue
  /\ value # isLearningMode
  /\ isLearningMode' = value
  /\ lastOp' = Op("setIsLearningMode")
  /\ UNCHANGED <<isWebcamActive, isRecording, handLandmarker, isModelLoading,
                 detectionMethod, motionThreshold, rafQueue, modelInit>>
  /\ UNCHANGED Session
  /\ Render(FALSE)

\* line 636
SetMotionThreshold(value) ==
  /\ ~effectDue
  /\ value # motionThreshold
  /\ motionThreshold' = value
  /\ lastOp' = Op("setMotionThreshold")
  /\ UNCHANGED <<isWebcamActive, isRecording, handLandmarker, isModelLoading,
                 detectionMethod, isLearningMode, rafQueue, modelInit>>
  /\ UNCHANGED Session
  /\ Render(FALSE)

\* a variant of StartStopEffect without the cleanup of the previous run
StartStopEffectNoCleanup(in, cap) ==
  /\ effectDue
  /\ IF isRecording /\ handLandmarker
     THEN RunCallback("effect", processVideoFrame, in,
                      rafQueue, cap)
     ELSE /\ in = NotReady
          /\ rafQueue' = CancelAnimationFrame(rafQueue)
          /\ effectDue' = FALSE
          /\ lastOp' = [Op("effect") EXCEPT !.outcome = "cancel"]
          /\ UNCHANGED <<isWebcamActive, isRecording, handLandmarker, isModelLoading,
                         detectionMethod, isLearningMode, motionThreshold, modelInit,
                         analyzeGesture, processVideoFrame, call>>
          /\ UNCHANGED Session

\* lines 360-372: the start/stop effect after a render that changed its
\* dependencies: the previous run's cleanup, then the body, which calls the
\* new processVideoFrame at once or cancels the pending frame
StartStopEffect(in, cap) ==
  /\ effectDue
  /\ IF isRecording /\ handLandmarker
     THEN RunCallback("effect", processVideoFrame, in,
                      CancelAnimationFrame(rafQueue), cap)
     ELSE /\ in = NotReady
          /\ rafQueue' = CancelAnimationFrame(CancelAnimationFrame(rafQueue))
          /\ effectDue' = FALSE
          /\ lastOp' = [Op("effect") EXCEPT !.outcome = "cancel"]
          /\ UNCHANGED <<isWebcamActive, isRecording, handLandmarker, isModelLoading,
                         detectionMethod, isLearningMode, motionThreshold, modelInit,
                         analyzeGesture, processVideoFrame, call>>
          /\ UNCHANGED Session

\* the browser runs the oldest requested animation frame
FrameTick(in, cap) ==
  /\ ~effectDue
  /\ rafQueue # <<>>
  /\ RunCallback("tick", rafQueue[1].cb, in, Tail(rafQueue), cap)

\* --------------------------------------------------------- specifications
Frames ==
  { <<>>,
    <<ObjectHand(ThumbsUpHand)>>,
    <<ObjectHand(FistHand)>>,
    <<ObjectHand(NoMatchHand)>>,
    <<ObjectHand(ShortHand)>>,
    <<ArrayHand(ThumbsUpHand)>>,
    <<ObjectHand(NoMatchHand), ObjectHand(ThumbsUpHand)>> }

Inputs == {NotReady, DetectThrows} \cup {Results(f) : f \in Frames}

Next ==
  \/ ModelLoaded
  \/ ModelFailed
  \/ StartWebcam
  \/ StopWebcam
  \/ ToggleRecording
  \/ ResetSession
  \/ \E value \in DetectionMethods : SetDetectionMethod(value)
  \/ \E value \in BOOLEAN : SetIsLearningMode(value)
  \/ \E in \in Inputs : StartStopEffect(in, MaxAccepted)
  \/ \E in \in Inputs : FrameTick(in, MaxAccepted)

Spec == Init /\ [][Next]_vars

\* Two gestures, the session controls, and enough accepted classifications
\* for the gesture sequence to evict.
SeqInputs ==
  {Results(<<ObjectHand(ThumbsUpHand)>>), Results(<<ObjectHand(FistHand)>>)}

NextSeq ==
  \/ ModelLoaded
  \/ StartWebcam
  \/ ToggleRecording
  \/ ResetSession
  \/ \E in \in SeqInputs \cup {NotReady} : StartStopEffect(in, MaxSeq)
  \/ \E in \in SeqInputs : FrameTick(in, MaxSeq)

SpecSeq == Init /\ [][NextSeq]_vars

\* One gesture, the session controls, the motion threshold, and enough
\* accepted classifications for the gesture history to evict.
LongInputs == {Results(<<ObjectHand(ThumbsUpHand)>>)}

NextLong ==
  \/ ModelLoaded
  \/ StartWebcam
  \/ StopWebcam
  \/ ToggleRecording
  \/ ResetSession
  \/ \E value \in MotionThresholds : SetMotionThreshold(value)
  \/ \E in \in LongInputs \cup {NotReady} : StartStopEffect(in, MaxLong)
  \/ \E in \in LongInputs : FrameTick(in, MaxLong)

SpecLong == Init /\ [][NextLong]_vars

\* ------------------------------------------------ the classifiers, called
\* directly on one hand or one buffer of frames
\* all four fingers extended, the thumb tip 0.017 from the index tip
OpenOkHand ==
  [i \in 0..20 |->
     CASE i = 4 -> Pt(4030, 4000)
       [] i \in {2, 3} -> Pt(Mid, 3000)
       [] i \in {8, 12, 16, 20} -> Pt(TipX(i), 4000)
       [] OTHER -> Pt(TipX(i), Mid)]

\* a degenerate detection: every point at the origin
ZeroHand == [i \in 0..20 |-> Pt(0, 0)]

\* no finger-curl rule matches, the thumb tip at (dx, dy) from the index tip
OkRingHand(dx, dy) ==
  [NoMatchHand EXCEPT ![4] = Pt(NoMatchHand[8].x + dx, NoMatchHand[8].y + dy)]

\* index extended, the other fingers curled, fingertips far apart
PointingSpreadHand ==
  [i \in 0..20 |->
     CASE i = 4 -> Pt(9000, 8000)
       [] i \in {2, 3} -> Pt(9000, 3000)
       [] i = 8 -> Pt(1000, 4000)
       [] i \in {12, 16, 20} -> Pt(500 * i - 3000, 6000)
       [] OTHER -> Pt(TipX(i), Mid)]

\* no finger-curl rule matches, fingertips far apart
SpreadHand ==
  [i \in 0..20 |->
     CASE i = 4 -> Pt(9000, 8000)
       [] i \in {2, 3} -> Pt(9000, 3000)
       [] i \in {8, 16} -> Pt(500 * i - 3000, Mid - 100)
       [] i \in {12, 20} -> Pt(500 * i - 3000, Mid + 100)
       [] OTHER -> Pt(TipX(i), Mid)]

\* the Thumbs Up hand without its last point
TwentyHand == [i \in 0..19 |-> ThumbsUpHand[i]]

Hands ==
  { ThumbsUpHand, FistHand, NoMatchHand, ShortHand, TwentyHand, OpenOkHand,
    ZeroHand, PointingSpreadHand, SpreadHand,
    OkRingHand(500, 0), OkRingHand(499, 0), OkRingHand(501, 0),
    OkRingHand(300, 400), OkRingHand(299, 400) }

\* ImageData of one grey level, and one whose right half is brighter by d
Gray(v) == [r |-> v, g |-> v, b |-> v]
Flat(w, h, v) ==
  [width |-> w, height |-> h, data |-> [p \in 1..(w * h) |-> Gray(v)]]
RightShifted(w, h, v, d) ==
  [width |-> w, height |-> h,
   data |-> [p \in 1..(w * h) |-> Gray(IF 2 * ((p - 1) % w) >= w THEN v + d ELSE v)]]

\* two still frames and then the right half brighter by 80
ShiftBuffer(w, h) == <<Flat(w, h, 100), Flat(w, h, 100), RightShifted(w, h, 100, 80)>>

Buffers ==
  { <<>>,
    <<Flat(8, 4, 100), RightShifted(8, 4, 100, 80)>>,
    <<Flat(8, 4, 100), Flat(8, 4, 100), Flat(8, 4, 100)>>,
    ShiftBuffer(4, 2), ShiftBuffer(8, 4), ShiftBuffer(8, 8), ShiftBuffer(40, 1) }

\* everything but call
Component ==
  <<isWebcamActive, isRecording, recognizedGesture, confidence, sessionStats,
    handLandmarker, isModelLoading, detectionMethod, gestureHistory,
    isLearningMode, customGestures, motionThreshold, gestureSequence,
    frameBuffer, analyzeGesture, processVideoFrame, effectDue, rafQueue,
    modelInit, clock, accepted, lastOp>>

\* a variant of CallAnalyzeStaticGesture that answers with the displayed
\* gesture when there is one
CallAnalyzeStaticGestureCached(points) ==
  /\ call' = [fn |-> "analyzeStaticGesture", at |-> clock, points |-> points,
              result |-> IF recognizedGesture # NoGesture
                         THEN Result(recognizedGesture, confidence)
                         ELSE AnalyzeStaticGesture(points)]
  /\ UNCHANGED Component

\* analyzeStaticGesture(points)
CallAnalyzeStaticGesture(points) ==
  /\ call' = [fn |-> "analyzeStaticGesture", at |-> clock, points |-> points,
              result |-> AnalyzeStaticGesture(points)]
  /\ UNCHANGED Component

\* analyzeTrackingGesture(points)
CallAnalyzeTrackingGesture(points) ==
  /\ call' = [fn |-> "analyzeTrackingGesture", at |-> clock, points |-> points,
              result |-> AnalyzeTrackingGesture(points)]
  /\ UNCHANGED Component

\* analyzeDynamicGesture(frames) of a render whose motionThreshold is threshold
CallAnalyzeDynamicGesture(frames, threshold) ==
  /\ call' = [fn |-> "analyzeDynamicGesture", at |-> clock, frames |-> frames,
              threshold |-> threshold,
              result |-> AnalyzeDynamicGesture(frames, threshold)]
  /\ UNCHANGED Component

\* analyzeGesture([{landmarks: points}]) of a render whose frameBuffer is
\* frames and whose detectionMethod is method, learning mode off
CallAnalyzeGesture(points, frames, method, threshold) ==
  /\ call' = [fn |-> "analyzeGesture", at |-> clock, points |-> points, frames |-> frames,
              method |-> method, threshold |-> threshold,
              result |-> AnalyzeGesture([frameBuffer |-> frames,
                                         detectionMethod |-> method,
                                         isLearningMode |-> FALSE,
                                         motionThreshold |-> threshold,
                                         customGestures |-> <<>>],
                                        <<ObjectHand(points)>>)]
  /\ UNCHANGED Component

NextClassify ==
  \/ \E points \in Hands : CallAnalyzeStaticGesture(points)
  \/ \E points \in Hands : CallAnalyzeTrackingGesture(points)
  \/ \E frames \in Buffers, threshold \in MotionThresholds :
       CallAnalyzeDynamicGesture(frames, threshold)
  \/ \E points \in Hands, frames \in Buffers, method \in DetectionMethods :
       CallAnalyzeGesture(points, frames, method, DefaultMotionThreshold)

SpecClassify == Init /\ [][NextClassify]_vars

\* The Static Classifier called at any moment of a session: between frames,
\* changes of the detection method, and resets.
StaticHands == {ThumbsUpHand, FistHand, NoMatchHand, ZeroHand, ShortHand}

NextStatic ==
  \/ ModelLoaded
  \/ StartWebcam
  \/ ToggleRecording
  \/ ResetSession
  \/ \E value \in DetectionMethods : SetDetectionMethod(value)
  \/ \E in \in SeqInputs \cup {NotReady} : StartStopEffect(in, MaxStatic)
  \/ \E in \in SeqInputs : FrameTick(in, MaxStatic)
  \/ \E points \in StaticHands : CallAnalyzeStaticGesture(points)

SpecStatic == Init /\ [][NextStatic]_vars

\* Frames under a detection method that changes during the session, and
\* analyzeGesture called on a filled buffer with a hand that only the
\* Dynamic and the Tracking Classifier match.
MethodHands == {SpreadHand}
MethodBuffers == {ShiftBuffer(8, 4)}

NextMethod ==
  \/ ModelLoaded
  \/ StartWebcam
  \/ ToggleRecording
  \/ ResetSession
  \/ \E value \in DetectionMethods : SetDetectionMethod(value)
  \/ \E in \in SeqInputs \cup {NotReady} : StartStopEffect(in, MaxStatic)
  \/ \E in \in SeqInputs : FrameTick(in, MaxStatic)
  \/ \E points \in MethodHands, frames \in MethodBuffers, method \in DetectionMethods :
       CallAnalyzeGesture(points, frames, method, DefaultMotionThreshold)

SpecMethod == Init /\ [][NextMethod]_vars

\* The Dynamic Classifier on 20x5 frames: two still frames and a last one
\* with one block of pixels brighter or darker, the blocks running between
\* the columns 0, 8, 13, 20 and the rows 0, 2, 4, 5.
Brighten(img, xs, ys, d) ==
  [img EXCEPT !.data =
     [p \in 1..Len(img.data) |->
        IF /\ PixelX(img, p) >= xs[1] /\ PixelX(img, p) < xs[2]
           /\ PixelY(img, p) >= ys[1] /\ PixelY(img, p) < ys[2]
        THEN Gray(img.data[p].r + d)
        ELSE img.data[p]]]

Still == Flat(20, 5, 100)
XSpans == {<<0, 8>>, <<8, 13>>, <<13, 20>>, <<0, 13>>, <<8, 20>>, <<0, 20>>}
YSpans == {<<0, 2>>, <<2, 4>>, <<4, 5>>, <<0, 4>>, <<2, 5>>, <<0, 5>>}
Shifts == {80, 150, 0 - 100}

\* the left block brighter by 80 and the right block brighter by 100
TwoLevel == Brighten(Brighten(Still, <<0, 8>>, <<2, 5>>, 80), <<13, 20>>, <<2, 5>>, 100)

DynamicBuffers ==
  {<<Still, Still, Brighten(Still, xs, ys, d)>> : xs \in XSpans, ys \in YSpans, d \in Shifts}
  \cup {<<Still, Still, TwoLevel>>, <<Still, Brighten(Still, <<0, 20>>, <<0, 5>>, 150)>>}

NextDynamic ==
  \E frames \in DynamicBuffers, threshold \in MotionThresholds :
     CallAnalyzeDynamicGesture(frames, threshold)

SpecDynamic == Init /\ [][NextDynamic]_vars

\* The Tracking Classifier on hands whose fingertips are set out from the
\* index tip by three steps, with the wrist at different places.
Step(p, d) == Pt(p.x + d[1], p.y + d[2])
TrackHand(wrist, d1, d2, d3) ==
  [i \in 0..20 |->
     CASE i = 0 -> wrist
       [] i = 8 -> Pt(1000, 4000)
       [] i = 12 -> Step(Pt(1000, 4000), d1)
       [] i = 16 -> Step(Step(Pt(1000, 4000), d1), d2)
       [] i = 20 -> Step(Step(Step(Pt(1000, 4000), d1), d2), d3)
       [] OTHER -> NoMatchHand[i]]

Wrists == {Pt(0, 0), Pt(1000, 4000), Pt(5000, 9000)}
FirstSteps == {<<500, 0>>, <<1000, 0>>}
LastSteps ==
  { <<499, 0>>, <<500, 0>>, <<501, 0>>, <<300, 400>>, <<1999, 0>>, <<2000, 0>>,
    <<2001, 0>>, <<1200, 1600>>, <<1201, 1600>> }

TrackHands ==
  {TrackHand(wrist, d1, d2, d3) :
     wrist \in Wrists, d1 \in FirstSteps, d2 \in FirstSteps, d3 \in LastSteps}
  \cup {ZeroHand, ShortHand, SpreadHand}

NextTracking == \E points \in TrackHands : CallAnalyzeTrackingGesture(points)

SpecTracking == Init /\ [][NextTracking]_vars

\* The Static Classifier on every combination of finger states: the thumb
\* tip above or below its joints, and each fingertip above (-1), level with
\* (0) or below (1) the joint it is compared with.
FingerTips == {8, 12, 16, 20}
FingerStates == [FingerTips -> {0 - 1, 0, 1}]
CurlHand(thumbUp, state) ==
  [i \in 0..20 |->
     CASE i = 4 -> Pt(9000, IF thumbUp THEN 2000 ELSE 4000)
       [] i \in {2, 3} -> Pt(9000, 3000)
       [] i \in FingerTips -> Pt(TipX(i), Mid + 1000 * state[i])
       [] OTHER -> Pt(TipX(i), Mid)]

CurlHands == {CurlHand(thumbUp, state) : thumbUp \in BOOLEAN, state \in FingerStates}

NextCurl == \E points \in CurlHands : CallAnalyzeStaticGesture(points)

SpecCurl == Init /\ [][NextCurl]_vars

\* Two gestures and every session control: frames interleaved with camera
\* stop/start, recording stop/start and reset.
NextLog ==
  \/ ModelLoaded
  \/ StartWebcam
  \/ StopWebcam
  \/ ToggleRecording
  \/ ResetSession
  \/ \E in \in SeqInputs \cup {NotReady} : StartStopEffect(in, MaxSeq)
  \/ \E in \in SeqInputs : FrameTick(in, MaxSeq)

SpecLog == Init /\ [][NextLog]_vars

\* Frames that fail and frames that succeed, with the session controls; the
\* browser runs every animation frame that stays requested and React runs
\* every effect that is due.
LiveInputs ==
  { NotReady, DetectThrows, Results(<<>>), Results(<<ObjectHand(ShortHand)>>),
    Results(<<ObjectHand(ThumbsUpHand)>>), Results(<<ObjectHand(NoMatchHand)>>) }

NextLive ==
  \/ ModelLoaded
  \/ StartWebcam
  \/ StopWebcam
  \/ ToggleRecording
  \/ ResetSession
  \/ \E value \in BOOLEAN : SetIsLearningMode(value)
  \/ \E value \in MotionThresholds : SetMotionThreshold(value)
  \/ \E in \in LiveInputs : StartStopEffect(in, MaxStatic)
  \/ \E in \in LiveInputs : FrameTick(in, MaxStatic)

SpecLive ==
  /\ Init /\ [][NextLive]_vars
  /\ WF_vars(\E in \in LiveInputs : StartStopEffect(in, MaxStatic))
  /\ WF_vars(\E in \in LiveInputs : FrameTick(in, MaxStatic))

\* ------------------------------------------------------------------ claims
FrameOps == {"tick", "effect"}
HistoryCapacity == HistoryKeep + 1
SequenceCapacity == SequenceKeep + 1
LabelsOf(entries) == [i \in 1..Len(entries) |-> entries[i].gesture]
Front(arr) == SubSeq(arr, 1, Len(arr) - 1)
Last(arr) == arr[Len(arr)]

C2_HistoryBound ==
  /\ Len(gestureHistory) <= 20
  /\ gestureHistory = SliceLast(accepted, 20)

C2_Witness ==
  /\ Len(accepted) = 25
  /\ Len(gestureHistory) = 20
  /\ gestureHistory = SubSeq(accepted, 6, 25)
  /\ \A i \in 1..20 : gestureHistory[i].timestamp = accepted[1].timestamp + i + 4

\* C3: every frame processed while Active that contains at least one hand
\* appends the raw frame image to the FrameBuffer.
C3_FrameStored ==
  (lastOp.op \in FrameOps /\ lastOp.hands > 0) => frameBuffer # <<>>

\* C4: the FrameBuffer length never exceeds its capacity of 10.
C4_BufferBound == Len(frameBuffer) <= 10

C4_Witness ==
  /\ lastOp.op \in FrameOps
  /\ lastOp.hands > 0
  /\ lastOp.outcome = "emit"
  /\ clock = 2
  /\ analyzeGesture.frameBuffer = frameBuffer
  /\ Len(frameBuffer) < maxFrameBuffer

\* C5: the gesture sequence never holds more than 5 labels and always holds
\* the most recent accepted labels in arrival order, the oldest evicted first.
C5_SequenceBound ==
  /\ Len(gestureSequence) <= 5
  /\ gestureSequence = LabelsOf(SliceLast(accepted, 5))

C5_Witness ==
  /\ Len(accepted) = 7
  /\ gestureSequence = <<"Fist", "Thumbs Up", "Thumbs Up", "Fist", "Thumbs Up">>
  /\ accepted[1].gesture = "Thumbs Up"
  /\ accepted[2].gesture = "Thumbs Up"

\* C6: reset(), in the Idle or the Active state and after any history of
\* frames, leaves SessionStats at {0, 0, 0}, the history, the sequence and
\* the FrameBuffer empty, and the CustomGestureSet as it was.
C6_ResetClears ==
  [][lastOp'.op = "resetSession"
     => /\ sessionStats' = [gesturesDetected |-> 0, accuracy |-> 0, sessionTime |-> 0]
        /\ gestureHistory' = <<>>
        /\ gestureSequence' = <<>>
        /\ frameBuffer' = <<>>
        /\ customGestures' = customGestures]_vars

C6_Witness ==
  /\ lastOp.op = "resetSession"
  /\ isRecording
  /\ clock = 2
  /\ customGestures # <<>>
  /\ sessionStats.gesturesDetected = 0
  /\ gestureHistory = <<>>

\* C7: with learning mode on, a frame whose winning classification has
\* confidence above 70 and a label not yet in the CustomGestureSet adds that
\* label; a winning classification of confidence 70 or lower never adds its
\* label; with learning mode off no frame changes the set.
C7_Learning ==
  [][/\ (/\ lastOp'.op \in FrameOps
         /\ isLearningMode
         /\ lastOp'.result.kind = "ok"
         /\ lastOp'.result.confidence > Conf(70)
         /\ ~Includes(customGestures, lastOp'.result.gesture))
        => customGestures' = Append(customGestures, lastOp'.result.gesture)
     /\ customGestures' # customGestures
        => /\ lastOp'.op \in FrameOps
           /\ isLearningMode
           /\ lastOp'.result.kind = "ok"
           /\ lastOp'.result.confidence > Conf(70)]_vars

C7_Witness ==
  /\ lastOp.op \in FrameOps
  /\ lastOp.result.kind = "ok"
  /\ isLearningMode
  /\ customGestures = <<"Fist", "Thumbs Up">>

\* C8: each label occurs in the CustomGestureSet at most once.
C8_NoDuplicates ==
  \A i, j \in 1..Len(customGestures) : customGestures[i] = customGestures[j] => i = j

\* C9: while not recording no frame is processed and no callback changes the
\* history, sequence, SessionStats, FrameBuffer or CustomGestureSet; once
\* recording is stopped no frame tick stays pending.
C9_IdleProcessesNothing ==
  [][/\ (~isRecording /\ lastOp'.op \in FrameOps)
        => /\ lastOp'.outcome \in {"return", "cancel"}
           /\ UNCHANGED <<gestureHistory, gestureSequence, sessionStats, frameBuffer,
                          customGestures>>
     /\ (~isRecording' /\ ~effectDue') => rafQueue' = <<>>]_vars

C9_Witness ==
  /\ ~isRecording
  /\ isWebcamActive
  /\ handLandmarker
  /\ lastOp = [Op("effect") EXCEPT !.outcome = "cancel"]
  /\ clock = 2
  /\ rafQueue = <<>>

\* C10: a frame in which the detector reports zero hands changes neither
\* the history, the sequence, SessionStats, the FrameBuffer, the
\* CustomGestureSet nor the displayed gesture and confidence.
C10_NoHandsNoChange ==
  [][lastOp'.outcome = "noHands"
     => UNCHANGED <<gestureHistory, gestureSequence, sessionStats, frameBuffer,
                    customGestures, recognizedGesture, confidence>>]_vars

C10_Witness ==
  /\ lastOp.outcome = "noHands"
  /\ recognizedGesture = "Thumbs Up"
  /\ confidence = Conf(92)
  /\ Len(gestureHistory) = 1

\* C11: a frame that contains a hand but whose winning classification is
\* null changes neither the history, the sequence, SessionStats nor the
\* CustomGestureSet, and emits nothing: the displayed gesture and confidence
\* stay as they were.
C11_NoMatchNoChange ==
  [][(/\ lastOp'.op \in FrameOps
      /\ lastOp'.hands > 0
      /\ lastOp'.outcome = "noEmit"
      /\ lastOp'.result = Null)
     => UNCHANGED <<gestureHistory, gestureSequence, sessionStats, customGestures,
                    recognizedGesture, confidence, clock>>]_vars

C11_Witness ==
  /\ lastOp.op = "tick"
  /\ lastOp.outcome = "noEmit"
  /\ lastOp.hands = 1
  /\ isLearningMode
  /\ detectionMethod = "object-detection"
  /\ Len(gestureHistory) = 1
  /\ recognizedGesture = "Fist"
  /\ customGestures = <<"Fist">>

\* the vocabulary of the classifier claims
Complete(points) == DOMAIN points = 0..20
Extended(points, tip) == points[tip].y < points[tip - 2].y
Curled(points, tip) == points[tip].y > points[tip - 2].y
OpenPalmRule(points) == \A tip \in {8, 12, 16, 20} : Extended(points, tip)
ThumbIndexDist2(points) ==
  (points[4].x - points[8].x) * (points[4].x - points[8].x)
  + (points[4].y - points[8].y) * (points[4].y - points[8].y)
OkHandRule(points) == ThumbIndexDist2(points) < 500 * 500
NoCurlRule(points) ==
  /\ ~(/\ points[4].y < points[3].y /\ points[4].y < points[2].y
       /\ \A tip \in {8, 12, 16, 20} : Curled(points, tip))
  /\ ~(Extended(points, 8) /\ Extended(points, 12) /\ Curled(points, 16) /\ Curled(points, 20))
  /\ ~(Extended(points, 8) /\ Curled(points, 12) /\ Curled(points, 16) /\ Curled(points, 20))
  /\ ~OpenPalmRule(points)
  /\ ~(\A tip \in {8, 12, 16, 20} : Curled(points, tip))

\* C12: for every hand that satisfies both the Open Palm rule and the OK Hand
\* rule the Static Classifier returns OK Hand with confidence 90.
C12_OkHandWins ==
  (/\ call.fn = "analyzeStaticGesture"
   /\ Complete(call.points)
   /\ OpenPalmRule(call.points)
   /\ OkHandRule(call.points))
  => call.result = Result("OK Hand", Conf(90))

\* C13: for a hand matching no finger-curl rule the Static Classifier returns
\* OK Hand with confidence 90 when the thumb-tip to index-tip distance is
\* strictly below 0.05, and null when it is exactly 0.05 or more.
C13_OkHandStrict ==
  (/\ call.fn = "analyzeStaticGesture"
   /\ Complete(call.points)
   /\ NoCurlRule(call.points))
  => call.result = IF ThumbIndexDist2(call.points) < 500 * 500
                   THEN Result("OK Hand", Conf(90)) ELSE Null

C13_Witness ==
  /\ call.fn = "analyzeStaticGesture"
  /\ call.points = OkRingHand(300, 400)
  /\ ThumbIndexDist2(call.points) = 500 * 500
  /\ call.result = Null

\* C14: a hand whose 21 points are all zero yields null, and no exception,
\* from the Static Classifier and from the Tracking Classifier.
C14_ZeroHandNoMatch ==
  (/\ call.fn \in {"analyzeStaticGesture", "analyzeTrackingGesture"}
   /\ Complete(call.points)
   /\ \A i \in 0..20 : call.points[i] = Pt(0, 0))
  => call.result = Null

\* C15: given a hand with fewer than 21 points the Static and the Tracking
\* Classifier return null rather than raising an error.
C15_ShortHandNoMatch ==
  (/\ call.fn \in {"analyzeStaticGesture", "analyzeTrackingGesture"}
   /\ Cardinality(DOMAIN call.points) < 21)
  => call.result = Null

\* C16: the Dynamic Classifier returns null, without failing, for fewer than
\* 3 buffered frames, and under detectionMethod frame-diff the Arbiter's
\* winner is then the Static Classifier's result alone.
C16_ShortBuffer ==
  /\ (call.fn = "analyzeDynamicGesture" /\ Len(call.frames) < 3)
     => call.result = Null
  /\ (call.fn = "analyzeGesture" /\ call.method = "frame-diff" /\ Len(call.frames) < 3)
     => call.result = AnalyzeStaticGesture(call.points)

C16_Witness ==
  /\ call.fn = "analyzeDynamicGesture"
  /\ Len(call.frames) = 2
  /\ call.frames[2] = RightShifted(8, 4, 100, 80)
  /\ call.threshold = 50
  /\ call.result = Null

\* the frame cur is the frame prev with every pixel of the right half brighter
\* by d and every other pixel as it was
RightHalfShift(prev, cur, d) ==
  /\ cur.width = prev.width /\ cur.height = prev.height
  /\ Len(cur.data) = Len(prev.data)
  /\ \A p \in 1..Len(cur.data) :
       cur.data[p] = IF 2 * ((p - 1) % cur.width) >= cur.width
                     THEN [r |-> prev.data[p].r + d, g |-> prev.data[p].g + d,
                           b |-> prev.data[p].b + d]
                     ELSE prev.data[p]

\* C17: for a buffer of at least 3 frames whose two most recent frames differ
\* only by a uniform luminance shift of +80 across the right half, with
\* motionThreshold 50 and motionMagnitude above 1000, the Dynamic Classifier
\* returns "Swipe Right" with confidence at most 85.
C17_SwipeRight ==
  (/\ call.fn = "analyzeDynamicGesture"
   /\ Len(call.frames) >= 3
   /\ call.threshold = 50
   /\ RightHalfShift(call.frames[Len(call.frames) - 1], call.frames[Len(call.frames)], 80)
   /\ MotionMagnitude3(call.frames[Len(call.frames)],
                       call.frames[Len(call.frames) - 1], 50) > 3 * 1000)
  => /\ call.result.kind = "ok"
     /\ call.result.gesture = "Swipe Right"
     /\ call.result.confidence <= Conf(85)

\* what the classifier the detection method adds returns for the call
Challenger ==
  IF call.method = "frame-diff" /\ Len(call.frames) >= 3
  THEN AnalyzeDynamicGesture(call.frames, call.threshold)
  ELSE IF call.method = "object-detection" THEN AnalyzeTrackingGesture(call.points)
  ELSE Null

\* C20: the Arbiter replaces the Static Classifier's result with the Dynamic
\* (frame-diff) or Tracking (object-detection) result only when the latter's
\* confidence is strictly greater; on equal confidence the Static result is
\* kept, and a null Static result loses to any non-null result.
C20_StrictOverride ==
  (/\ call.fn = "analyzeGesture"
   /\ AnalyzeStaticGesture(call.points) # Throw
   /\ Challenger # Throw)
  => call.result =
       IF /\ Challenger.kind = "ok"
          /\ \/ AnalyzeStaticGesture(call.points) = Null
             \/ Challenger.confidence > AnalyzeStaticGesture(call.points).confidence
       THEN Challenger
       ELSE AnalyzeStaticGesture(call.points)

C20_Witness ==
  /\ call.fn = "analyzeGesture"
  /\ call.points = PointingSpreadHand
  /\ call.method = "object-detection"
  /\ AnalyzeTrackingGesture(call.points) = Result("Spread", Conf(85))
  /\ call.result = Result("Pointing", Conf(85))

C19_FailedModel ==
  [][/\ modelInit = "failed" => modelInit' = "failed"
     /\ modelInit' = "failed"
        => /\ ~handLandmarker'
           /\ ~isModelLoading'
           /\ lastOp'.outcome \in {"none", "cancel"}
           /\ rafQueue' = <<>>
           /\ gestureHistory' = <<>>
           /\ gestureSequence' = <<>>
           /\ sessionStats' = [gesturesDetected |-> 0, accuracy |-> 0, sessionTime |-> 0]
           /\ frameBuffer' = <<>>
           /\ customGestures' = <<>>]_vars

C19_Witness ==
  /\ modelInit = "failed"
  /\ isWebcamActive
  /\ isRecording
  /\ isLearningMode
  /\ lastOp = [Op("effect") EXCEPT !.outcome = "cancel"]
  /\ gestureHistory = <<>>

\* the labels of the Dynamic and of the Tracking Classifier, and the labels a
\* detection method keeps out of the winner
Swipes == {"Swipe Left", "Swipe Right", "Swipe Up", "Swipe Down"}
TrackingLabels == {"Pinch", "Spread"}
Excluded(method) ==
  IF method = "manual" THEN Swipes \cup TrackingLabels
  ELSE IF method = "frame-diff" THEN TrackingLabels
  ELSE Swipes

\* C21: the label a frame emits is never one of a classifier the detection
\* method in force does not enable (manual: no Swipe, Pinch or Spread;
\* frame-diff: no Pinch or Spread; object-detection: no Swipe), a changed
\* detection method being in force for the frames processed after the
\* change; the same holds for what analyzeGesture returns under a method.
C21_MethodSelects ==
  [][/\ (lastOp'.op \in FrameOps /\ lastOp'.outcome = "emit" /\ clock' # clock)
        => lastOp'.result.gesture \notin Excluded(detectionMethod)
     /\ (call' # call /\ call'.fn = "analyzeGesture" /\ call'.result.kind = "ok")
        => call'.result.gesture \notin Excluded(call'.method)]_vars

C21_Witness ==
  /\ detectionMethod = "manual"
  /\ lastOp.op \in FrameOps
  /\ lastOp.result = Result("Fist", Conf(80))
  /\ Len(gestureHistory) = 2
  /\ gestureHistory[1].gesture = "Pinch"
  /\ gestureHistory[2].gesture = "Fist"

\* the two most recent frames of the call
Current == call.frames[Len(call.frames)]
Previous == call.frames[Len(call.frames) - 1]

\* 3 * |luminance difference| of pixel p between the two frames
LumaDiff3(p) ==
  Abs((Current.data[p].r + Current.data[p].g + Current.data[p].b)
      - (Previous.data[p].r + Previous.data[p].g + Previous.data[p].b))

\* 3 * the sum of the luminance differences that strictly exceed the
\* threshold of the call, over the pixels 1..n that are in the set S
RECURSIVE Contribution3(_, _)
Contribution3(S, n) ==
  IF n = 0 THEN 0
  ELSE (IF n \in S /\ LumaDiff3(n) > 3 * call.threshold THEN LumaDiff3(n) ELSE 0)
       + Contribution3(S, n - 1)

Pixels == 1..Len(Current.data)
Magnitude3 == Contribution3(Pixels, Len(Current.data))

\* C22: the Dynamic Classifier returns a non-null result exactly when
\* motionMagnitude, the sum of the luminance differences that strictly
\* exceed motionThreshold, is strictly greater than 1000, and the confidence
\* is then min(85, 60 + motionMagnitude/100), never above 85.
C22_MagnitudeRule ==
  (call.fn = "analyzeDynamicGesture" /\ Len(call.frames) >= 3)
  => /\ call.result # Throw
     /\ call.result # Null <=> Magnitude3 > 3 * 1000
     /\ Magnitude3 > 3 * 1000
        => /\ call.result.confidence = Min(Conf(85), Conf(60) + Magnitude3)
           /\ call.result.confidence <= Conf(85)

C22_Witness ==
  /\ call.fn = "analyzeDynamicGesture"
  /\ call.frames = <<Still, Still, TwoLevel>>
  /\ call.threshold = 80
  /\ Magnitude3 = 3 * 2100
  /\ call.result = Result("Swipe Right", Conf(81))

\* 3 * the accumulators: the pixels right of 0.6 * width add and those left
\* of 0.4 * width subtract, likewise below 0.6 * height and above 0.4 * height
Horizontal3 ==
  Contribution3({p \in Pixels : 5 * ((p - 1) % Current.width) > 3 * Current.width},
                Len(Current.data))
  - Contribution3({p \in Pixels : 5 * ((p - 1) % Current.width) < 2 * Current.width},
                  Len(Current.data))
Vertical3 ==
  Contribution3({p \in Pixels : 5 * ((p - 1) \div Current.width) > 3 * Current.height},
                Len(Current.data))
  - Contribution3({p \in Pixels : 5 * ((p - 1) \div Current.width) < 2 * Current.height},
                  Len(Current.data))

\* C23: whenever motionMagnitude exceeds 1000 the Dynamic Classifier picks
\* the axis whose accumulator has the larger absolute value and the direction
\* from that accumulator's sign (horizontal: positive Swipe Right, negative
\* Swipe Left; vertical: positive Swipe Down, negative Swipe Up), and reports
\* no direction when the two absolute values are equal, which includes the
\* case of a chosen accumulator that is zero.
C23_AxisAndDirection ==
  (call.fn = "analyzeDynamicGesture" /\ Len(call.frames) >= 3 /\ Magnitude3 > 3 * 1000)
  => IF Abs(Horizontal3) > Abs(Vertical3)
     THEN /\ call.result.kind = "ok"
          /\ call.result.gesture = IF Horizontal3 > 0 THEN "Swipe Right" ELSE "Swipe Left"
     ELSE IF Abs(Vertical3) > Abs(Horizontal3)
     THEN /\ call.result.kind = "ok"
          /\ call.result.gesture = IF Vertical3 > 0 THEN "Swipe Down" ELSE "Swipe Up"
     ELSE call.result.kind # "ok"

\* the squared distance between two neighbouring fingertips of a hand, the
\* fingertips being the points 8, 12, 16 and 20
Gap2(points, i) ==
  (points[i].x - points[i + 4].x) * (points[i].x - points[i + 4].x)
  + (points[i].y - points[i + 4].y) * (points[i].y - points[i + 4].y)

TipPairs == {8, 12, 16}
FourTips(points) == {8, 12, 16, 20} \subseteq DOMAIN points

\* totalSpread lies between SpreadFloor (the sum of the rounded-down
\* distances) and SpreadCeil, and is SpreadFloor when every distance is whole
WholeGaps(points) == \A i \in TipPairs : Isqrt(Gap2(points, i)) * Isqrt(Gap2(points, i)) = Gap2(points, i)
SpreadFloor(points) ==
  Isqrt(Gap2(points, 8)) + Isqrt(Gap2(points, 12)) + Isqrt(Gap2(points, 16))
SpreadCeil(points) ==
  IF WholeGaps(points) THEN SpreadFloor(points) ELSE SpreadFloor(points) + 3

\* totalSpread < t, totalSpread > t, and whether the bounds decide both
StrictlyBelow(points, t) ==
  IF WholeGaps(points) THEN SpreadFloor(points) < t ELSE SpreadCeil(points) <= t
StrictlyAbove(points, t) ==
  IF WholeGaps(points) THEN SpreadFloor(points) > t ELSE SpreadFloor(points) >= t
Decided(points, t) ==
  WholeGaps(points) \/ SpreadCeil(points) <= t \/ SpreadFloor(points) >= t

SameButWrist(p, q) ==
  /\ DOMAIN p = DOMAIN q
  /\ \A i \in DOMAIN p \ {0} : p[i] = q[i]

\* C24: the Tracking Classifier returns Pinch (87) iff totalSpread, the sum
\* of the index-middle, middle-ring and ring-pinky fingertip distances, is
\* strictly below 0.15, Spread (85) iff it is strictly above 0.4 and null
\* otherwise, so also at exactly 0.15 and exactly 0.4; two hands that differ
\* only in the wrist point get the same result.
C24_TrackingThresholds ==
  [][/\ (/\ call'.fn = "analyzeTrackingGesture"
         /\ FourTips(call'.points)
         /\ Decided(call'.points, 1500) /\ Decided(call'.points, 4000))
        => call'.result =
             IF StrictlyBelow(call'.points, 1500) THEN Result("Pinch", Conf(87))
             ELSE IF StrictlyAbove(call'.points, 4000) THEN Result("Spread", Conf(85))
             ELSE Null
     /\ (/\ call.fn = "analyzeTrackingGesture"
         /\ call'.fn = "analyzeTrackingGesture"
         /\ SameButWrist(call.points, call'.points))
        => call'.result = call.result]_vars

C24_Witness ==
  /\ call.fn = "analyzeTrackingGesture"
  /\ call.points = TrackHand(Pt(5000, 9000), <<1000, 0>>, <<1000, 0>>, <<1200, 1600>>)
  /\ SpreadFloor(call.points) = 4000 /\ WholeGaps(call.points)
  /\ call.result = Null

\* a step in which a frame is accepted: its classification is applied to
\* the history and the statistics
Accepting == lastOp'.op \in FrameOps /\ lastOp'.outcome = "emit" /\ clock' # clock

\* twice the sum of the previous accuracy and the accepted confidence, and
\* twice the new accuracy, in units of 1/ConfScale
TwiceMean == sessionStats.accuracy * ConfScale + lastOp'.result.confidence
TwiceAccuracy == 2 * ConfScale * sessionStats'.accuracy

\* C25, exact mean: on every accepted classification the session accuracy
\* becomes exactly the two-point mean (previous accuracy + new confidence) / 2,
\* starting from 0 after creation or reset.
C25_ExactMean ==
  [][/\ Accepting => TwiceAccuracy = TwiceMean
     /\ sessionStats.gesturesDetected = 0 => sessionStats.accuracy = 0
     /\ lastOp'.op = "resetSession" => sessionStats'.accuracy = 0]_vars

\* C25, rounded mean: on every accepted classification the session accuracy
\* becomes the two-point mean (previous accuracy + new confidence) / 2
\* rounded to the nearest integer, a half rounded up, starting from 0 after
\* creation or reset; it is not the average of all accepted confidences.
C25_RoundedMean ==
  [][/\ Accepting
        => /\ TwiceAccuracy - ConfScale <= TwiceMean
           /\ TwiceMean < TwiceAccuracy + ConfScale
     /\ sessionStats.gesturesDetected = 0 => sessionStats.accuracy = 0
     /\ lastOp'.op = "resetSession" => sessionStats'.accuracy = 0]_vars

\* two classifications of confidence 87 accepted: 0, then 44, then 66
C25_Witness ==
  /\ lastOp.op \in FrameOps /\ lastOp.outcome = "emit"
  /\ Len(gestureHistory) = 2
  /\ gestureHistory[1].confidence = Conf(87)
  /\ gestureHistory[2].confidence = Conf(87)
  /\ sessionStats.gesturesDetected = 2
  /\ sessionStats.accuracy = 66

\* a step of the start/stop effect
EffectStep == effectDue /\ ~effectDue'

\* C26: at any moment at most one frame tick is pending; a tick that runs
\* leaves at most the tick it scheduled itself, after its state updates; and
\* a restart of the loop by the start/stop effect leaves no tick of the
\* earlier chain pending: what is pending afterwards is the callback of the
\* current render alone.
C26_OneTickChain ==
  [][/\ Len(rafQueue') <= 1
     /\ (lastOp'.op = "tick" /\ rafQueue # <<>> /\ rafQueue' # <<>> /\ ~EffectStep)
        => rafQueue'[1] = [cb |-> rafQueue[1].cb, latest |-> TRUE]
     /\ EffectStep
        => \A i \in 1..Len(rafQueue') :
             rafQueue'[i] = [cb |-> processVideoFrame, latest |-> TRUE]]_vars

\* the loop restarted by a change of the detection method after a frame was
\* accepted under the earlier one
C26_Witness ==
  /\ lastOp.op = "effect"
  /\ lastOp.outcome = "emit"
  /\ Len(gestureHistory) = 2
  /\ detectionMethod = "object-detection"
  /\ rafQueue = <<[cb |-> processVideoFrame, latest |-> TRUE]>>
  /\ processVideoFrame.analyzeGesture.detectionMethod = "object-detection"

\* the finger-curl rules whose condition the hand meets
ThumbsUpRule(points) ==
  /\ points[4].y < points[3].y /\ points[4].y < points[2].y
  /\ \A tip \in {8, 12, 16, 20} : Curled(points, tip)
PeaceSignRule(points) ==
  Extended(points, 8) /\ Extended(points, 12) /\ Curled(points, 16) /\ Curled(points, 20)
PointingRule(points) ==
  Extended(points, 8) /\ Curled(points, 12) /\ Curled(points, 16) /\ Curled(points, 20)
FistRule(points) == \A tip \in {8, 12, 16, 20} : Curled(points, tip)
RulesMet(points) ==
  (IF ThumbsUpRule(points) THEN {"Thumbs Up"} ELSE {})
  \cup (IF PeaceSignRule(points) THEN {"Peace Sign"} ELSE {})
  \cup (IF PointingRule(points) THEN {"Pointing"} ELSE {})
  \cup (IF OpenPalmRule(points) THEN {"Open Palm"} ELSE {})
  \cup (IF FistRule(points) THEN {"Fist"} ELSE {})

\* C27, all five rules: no hand meets the conditions of two different finger-curl
\* rules (Thumbs Up, Peace Sign, Pointing, Open Palm, Fist) at once.
C27_CurlRulesDisjoint ==
  (call.fn = "analyzeStaticGesture" /\ Complete(call.points))
  => Cardinality(RulesMet(call.points)) <= 1

\* C27, Thumbs Up apart: no hand meets two of Peace Sign, Pointing, Open Palm and
\* Fist at once; a hand that meets Thumbs Up also meets Fist and no other
\* rule, and the priority order gives it Thumbs Up; a hand that meets one
\* rule only gets that rule's label.
C27_ThumbsUpOverFist ==
  (call.fn = "analyzeStaticGesture" /\ Complete(call.points))
  => /\ Cardinality(RulesMet(call.points) \ {"Thumbs Up"}) <= 1
     /\ "Thumbs Up" \in RulesMet(call.points)
        => /\ RulesMet(call.points) = {"Thumbs Up", "Fist"}
           /\ call.result = Result("Thumbs Up", Conf(92))
     /\ (RulesMet(call.points) # {} /\ "Thumbs Up" \notin RulesMet(call.points))
        => /\ call.result.kind = "ok"
           /\ RulesMet(call.points) = {call.result.gesture}

C27_Witness ==
  /\ call.fn = "analyzeStaticGesture"
  /\ call.points = CurlHand(TRUE, [tip \in FingerTips |-> 1])
  /\ RulesMet(call.points) = {"Thumbs Up", "Fist"}
  /\ call.result = Result("Thumbs Up", Conf(92))

\* C28: in every reachable state the gesture sequence is the labels of the
\* last min(5, length of the history) entries of the gesture history, in the
\* same order.
C28_SequenceFollowsHistory ==
  /\ Len(gestureSequence) = Min(5, Len(gestureHistory))
  /\ \A i \in 1..Len(gestureSequence) :
       gestureSequence[i]
         = gestureHistory[Len(gestureHistory) - Len(gestureSequence) + i].gesture

C28_Witness ==
  /\ ~isWebcamActive
  /\ Len(gestureHistory) = 6
  /\ gestureHistory[1].gesture = "Fist"
  /\ gestureSequence = <<"Thumbs Up", "Fist", "Thumbs Up", "Fist", "Thumbs Up">>

\* a step that stops the camera, and one that stops recording
CameraStops == isWebcamActive /\ ~isWebcamActive'
RecordingStops == isRecording /\ ~isRecording'

\* C29: in every reachable state isRecording is true only if isWebcamActive
\* is true, and a step that stops the camera or the recording leaves the
\* history, the sequence, SessionStats and the CustomGestureSet as they were.
C29_RecordingNeedsCamera ==
  [][/\ isRecording' => isWebcamActive'
     /\ (CameraStops \/ RecordingStops)
        => UNCHANGED <<gestureHistory, gestureSequence, sessionStats, customGestures>>]_vars

C29_Witness ==
  /\ lastOp.op = "stopWebcam"
  /\ ~isWebcamActive /\ ~isRecording
  /\ effectDue
  /\ rafQueue # <<>>
  /\ Len(gestureHistory) = 2
  /\ Len(gestureSequence) = 2
  /\ sessionStats.gesturesDetected = 2
  /\ customGestures # <<>>

\* the last step processed a frame: it went past the early return
Processed == lastOp.op \in FrameOps /\ lastOp.outcome \notin {"return", "cancel"}

\* a tick is pending whose callback will process a frame
TickPending ==
  /\ rafQueue # <<>>
  /\ rafQueue[Len(rafQueue)].cb.isRecording
  /\ rafQueue[Len(rafQueue)].cb.handLandmarker

\* C30: a frame whose processing throws leaves the history, the sequence and
\* SessionStats unchanged and still schedules the next tick; while recording
\* with the detector loaded every processed frame, also one that finds the
\* video not ready, leaves a tick pending, and after whatever happens a
\* frame is processed again unless recording is stopped.
C30_LoopStaysLive ==
  /\ [][/\ lastOp'.outcome = "throw"
           => /\ UNCHANGED <<gestureHistory, gestureSequence, sessionStats>>
              /\ TickPending'
        /\ (isRecording /\ handLandmarker /\ lastOp'.op \in FrameOps)
           => Processed' /\ TickPending']_vars
  /\ (isRecording /\ handLandmarker) ~> (Processed \/ ~isRecording)

\* a frame that threw on malformed landmarks after two accepted frames
C30_Witness ==
  /\ isRecording /\ handLandmarker
  /\ lastOp.op = "tick"
  /\ lastOp.outcome = "throw"
  /\ lastOp.hands = 1
  /\ Len(gestureHistory) = 2
  /\ TickPending

====
